---- MODULE Spec2Model ----
(***************************************************************************)
(* A model of holopy/fitting/fit_series.py: the series data accessors, the *)
(* preprocessing and update policies, the fit_series driver loop with its  *)
(* per-frame result files, and series_preprocess_data.                     *)
(*                                                                         *)
(* Images are symbolic terms written as sequences of strings in prefix     *)
(* form, so that two images are equal exactly when they were built the     *)
(* same way from the same sources.  A raised exception is the term         *)
(* <<"raise", kind>>.                                                      *)
(***************************************************************************)
EXTENDS Integers, Sequences, FiniteSets, TLC

\* ------------------------------------------------------------------ bounds
MaxFrames == 2
MaxRuns == 2
MaxShape == 6

\* ------------------------------------------------------- symbolic values
None == <<"None">>
data_spacing == "data_spacing"
data_optics == "data_optics"
BgPath == <<"path", "bg.file">>
DfPath == <<"path", "df.file">>
BgObject == <<"Image", "object", "bg", "bg_spacing", "bg_optics">>
DfObject == <<"Image", "object", "df", "df_spacing", "df_optics">>

Raise(kind) == <<"raise", kind>>
IsRaise(v) == v[1] = "raise"
isinstance_basestring(v) == v[1] = "path"
IsArray(v) == v[1] \in {"Image", "zeros", "sub", "div", "norm"}

\* The names bound in the body of fit_series: its parameters and the locals
\* it assigns.  Reading any other name (there is no module global of that
\* name either) raises NameError.  The module is Python 2 (basestring,
\* from __future__ import division), so the builtins it uses are bound.
FitSeriesNames ==
    {"model", "data", "data_optics", "data_spacing", "bg", "df",
     "output_directory", "preprocess_func", "update_func", "restart",
     "kwargs", "allresults", "i", "frame", "result", "imagetofit"}
ModuleNames ==
    {"warnings", "os", "types", "np", "h5py", "normalize", "subimage",
     "Image", "mkdir_p", "load", "save", "fit", "div_normalize",
     "scatterer_centered_subimage", "update_all", "SeriesData",
     "SeriesH5Data", "_load_series_data", "fit_series", "series_guess",
     "series_preprocess_data", "basestring", "isinstance", "enumerate",
     "str", "object"}
IsBound(name) == name \in FitSeriesNames \cup ModuleNames

\* ------------------------------------------------- external collaborators
\* load(path, spacing=, optics=): the image stored at path, with the given
\* metadata attached.
load(path, spacing, optics) == <<"Image", "file", path, spacing, optics>>
PathOf(arg) == arg[2]

\* Image(dataset, spacing=, optics=)
Image(dataset, spacing, optics) == <<"Image", "dataset", dataset, spacing, optics>>

\* normalize(image): an opaque, fixed transform of its argument.
normalize(image) == IF IsRaise(image) THEN image ELSE <<"norm">> \o image

\* numpy arithmetic: defined on arrays, TypeError on None or a string.
Arith(op, a, b) ==
    IF IsRaise(a) THEN a
    ELSE IF IsRaise(b) THEN b
    ELSE IF IsArray(a) /\ IsArray(b) THEN <<op>> \o a \o b
    ELSE Raise("TypeError")
zeros_like(a) == <<"zeros">> \o a

\* ------------------------------------------------ preprocessing policies
div_normalize(holo, bg, df, model) ==
    LET df1 == IF df = None THEN zeros_like(holo) ELSE df
    IN  IF bg # None
        THEN normalize(Arith("div", Arith("sub", holo, df1), Arith("sub", bg, df1)))
        ELSE normalize(holo)

\* ------------------------------------------------------- update policies
\* model.parameters, in list order; a model is its guess per parameter name.
ParameterNames == <<"x", "n">>
Names == {ParameterNames[j] : j \in 1..Len(ParameterNames)}
InitialGuess == [p \in Names |-> 0]

\* The values the fit routine can return: two complete results and one
\* that lacks the parameter "n".
FitResults ==
    {[x |-> 1, n |-> 1], [x |-> 2, n |-> 2], [x |-> 3]}

\* update_all assigns in place, parameter by parameter; the first parameter
\* the result lacks raises KeyError and leaves the earlier ones assigned.
RECURSIVE UpdateFrom(_, _, _)
UpdateFrom(model, fitted_result, j) ==
    IF j > Len(ParameterNames) THEN [model |-> model, err |-> "none"]
    ELSE LET name == ParameterNames[j]
         IN  IF name \notin DOMAIN fitted_result
             THEN [model |-> model, err |-> "KeyError"]
             ELSE UpdateFrom([model EXCEPT ![name] = fitted_result[name]],
                             fitted_result, j + 1)

update_all_keeps_guess(model, fitted_result) ==
    [model |-> model,
     err |-> IF Names \subseteq DOMAIN fitted_result THEN "none" ELSE "KeyError"]

update_all(model, fitted_result) == UpdateFrom(model, fitted_result, 1)

\* ------------------------------------------------- series data accessors
\* The k-th file name of a list of N frames; the keys of an archive of N
\* frames are the decimal strings of 0 .. N-1.
FileName(k) == "frame_" \o ToString(k)
ArchiveKeys(n) == {ToString(k) : k \in 0..(n - 1)}
str(k) == ToString(k)

\* _load_series_data: the archive form when the source opens as an archive,
\* else (h5py raising IOError or AttributeError on a list) the sequence form.
_load_series_data(names) == IF names = "archive" THEN "SeriesH5Data" ELSE "SeriesData"

\* SeriesData.__getitem__(k): filenames[k] raises IndexError past the end;
\* otherwise the file is loaded (loaded names the file read) and the method
\* falls off its end, returning None.
SeriesData_getitem(n, k, loadOk) ==
    IF k >= n THEN [value |-> Raise("IndexError"), loaded |-> {}]
    ELSE IF ~loadOk THEN [value |-> Raise("IOError"), loaded |-> {k}]
    ELSE [value |-> None, loaded |-> {k}]

\* SeriesH5Data.__getitem__(k): the dataset under key str(k), KeyError when
\* the archive has no such key.
SeriesH5Data_getitem(n, k) ==
    IF str(k) \notin ArchiveKeys(n) THEN [value |-> Raise("KeyError"), loaded |-> {}]
    ELSE [value |-> Image(str(k), data_spacing, data_optics), loaded |-> {}]

getitem(variant, n, k, loadOk) ==
    IF variant = "SeriesH5Data" THEN SeriesH5Data_getitem(n, k)
    ELSE SeriesData_getitem(n, k, loadOk)

\* ------------------------------------------------------------------ state
VARIABLES
    data,               \* argument: "archive" or "list"
    nframes,            \* the number of frames the source holds
    bgArg, dfArg,       \* arguments bg, df: None, a path or an image
    output_directory,   \* argument: TRUE when a directory is given
    run,                \* calls of fit_series made so far
    restart,            \* argument restart of the current call
    pc,                 \* position of the current call
    i,                  \* loop index
    series,             \* the accessor built from data
    frame, bg, df,      \* locals of fit_series
    imagetofit,
    result,             \* <<>> while unbound, else <<the result>>
    model,              \* the model's guess per parameter
    model0,             \* the model's guess when the current call began
    allresults,
    files,              \* per index: <<>> or <<the result saved there>>
    files0,             \* the files when the current call began
    dirExists,          \* output_directory has been created
    err, errAt,         \* the exception that ended the call, and where
    trace,              \* the steps of the current call, in order
    fitimages,          \* the images handed to fit in the current call
    loads,              \* per frame file: times the loader has read it
    sppOut,             \* what series_preprocess_data returned, <<>> before
    sub                 \* state of the subimage preprocessing policy

mainvars ==
    <<data, nframes, bgArg, dfArg, output_directory, run, restart, pc, i,
      series, frame, bg, df, imagetofit, result, model, model0, allresults,
      files, files0, dirExists, err, errAt, trace, fitimages, loads, sppOut>>
vars == <<mainvars, sub>>

argvars == <<data, nframes, bgArg, dfArg, output_directory>>

Frames == 0..(MaxFrames - 1)
SubIdle == [pc |-> "off"]

Event(op) == [op |-> op, idx |-> i, guess |-> model]

MainInit ==
    /\ data \in {"archive", "list"}
    /\ nframes \in 0..MaxFrames
    /\ bgArg \in {None, BgPath, BgObject}
    /\ dfArg \in {None, DfPath, DfObject}
    /\ output_directory \in BOOLEAN
    /\ run = 0
    /\ restart = FALSE
    /\ pc = "idle"
    /\ i = 0
    /\ series = "unset"
    /\ frame = None
    /\ bg = None
    /\ df = None
    /\ imagetofit = None
    /\ result = <<>>
    /\ model = InitialGuess
    /\ model0 = InitialGuess
    /\ allresults = <<>>
    /\ files = [k \in Frames |-> <<>>]
    /\ files0 = [k \in Frames |-> <<>>]
    /\ dirExists = FALSE
    /\ err = "none"
    /\ errAt = "none"
    /\ trace = <<>>
    /\ fitimages = <<>>
    /\ loads = [k \in Frames |-> 0]
    /\ sppOut = <<>>

Init == MainInit /\ sub = SubIdle

\* --------------------------------------------------------------- fit_series
\* Lines 149-152: bg and df given as paths are loaded.
ResolveBg(arg) ==
    IF isinstance_basestring(arg)
    THEN IF IsBound("data_spacing") /\ IsBound("data_optis")
         THEN load(PathOf(arg), data_spacing, data_optics)
         ELSE Raise("NameError")
    ELSE arg

ResolveDf(arg, loadOk) ==
    IF isinstance_basestring(arg)
    THEN IF IsBound("data_spacing") /\ IsBound("data_optics")
         THEN IF loadOk THEN load(PathOf(arg), data_spacing, data_optics)
              ELSE Raise("IOError")
         ELSE Raise("NameError")
    ELSE arg

\* Lines 143-152: the call binds its arguments, builds the accessor, makes
\* the output directory and resolves bg and df.  The caller passes the same
\* model object again (keeping its guesses) or a fresh one.
FitSeriesCall ==
    /\ pc \in {"idle", "returned", "raised"}
    /\ run < MaxRuns
    /\ \E rs \in BOOLEAN, fresh \in BOOLEAN, loadOk \in BOOLEAN :
         LET m == IF fresh THEN InitialGuess ELSE model
             b == ResolveBg(bgArg)
             d == IF IsRaise(b) THEN b ELSE ResolveDf(dfArg, loadOk)
         IN  /\ run' = run + 1
             /\ restart' = rs
             /\ model' = m
             /\ model0' = m
             /\ allresults' = <<>>
             /\ files0' = files
             /\ series' = _load_series_data(data)
             /\ dirExists' = (dirExists \/ output_directory)
             /\ trace' = <<>>
             /\ fitimages' = <<>>
             /\ i' = 0
             /\ frame' = None
             /\ imagetofit' = None
             /\ result' = <<>>
             /\ bg' = IF IsRaise(b) THEN bgArg ELSE b
             /\ df' = IF IsRaise(d) THEN dfArg ELSE d
             /\ IF IsRaise(d)
                THEN pc' = "raised" /\ err' = d[2] /\ errAt' = "resolve"
                ELSE pc' = "iter" /\ err' = "none" /\ errAt' = "none"
             /\ UNCHANGED <<argvars, files, loads, sppOut, sub>>

\* Line 154: enumerate(data) asks the accessor for item i.  An IndexError
\* from __getitem__ ends the iteration; any other exception propagates.
NextFrame ==
    /\ pc = "iter"
    /\ \E loadOk \in BOOLEAN :
         LET g == getitem(series, nframes, i, loadOk)
         IN  /\ trace' = Append(trace, Event("getitem"))
             /\ loads' = [k \in Frames |-> IF k \in g.loaded THEN loads[k] + 1 ELSE loads[k]]
             /\ IF g.value = Raise("IndexError")
                THEN pc' = "returned" /\ UNCHANGED <<frame, err, errAt>>
                ELSE IF IsRaise(g.value)
                THEN pc' = "raised" /\ err' = g.value[2] /\ errAt' = "getitem"
                     /\ UNCHANGED frame
                ELSE pc' = "body" /\ frame' = g.value /\ UNCHANGED <<err, errAt>>
    /\ UNCHANGED <<argvars, run, restart, i, series, bg, df, imagetofit, result,
                   model, model0, allresults, files, files0, dirExists, fitimages,
                   sppOut, sub>>

\* Lines 155-158: the restart test reads the name outf; without restart the
\* frame is preprocessed.
Body ==
    /\ pc = "body"
    /\ IF restart /\ ~IsBound("outf")
       THEN /\ pc' = "raised" /\ err' = "NameError" /\ errAt' = "restart"
            /\ UNCHANGED <<imagetofit, result, trace>>
       ELSE IF restart /\ files[i] # <<>>
       THEN /\ result' = files[i]
            /\ pc' = "update"
            /\ trace' = Append(trace, Event("loadresult"))
            /\ UNCHANGED <<imagetofit, err, errAt>>
       ELSE LET im == div_normalize(frame, bg, df, model)
            IN  /\ trace' = Append(trace, Event("preprocess"))
                /\ UNCHANGED result
                /\ IF IsRaise(im)
                   THEN pc' = "raised" /\ err' = im[2] /\ errAt' = "preprocess"
                        /\ UNCHANGED imagetofit
                   ELSE pc' = "fit" /\ imagetofit' = im /\ UNCHANGED <<err, errAt>>
    /\ UNCHANGED <<argvars, run, restart, i, series, frame, bg, df, model, model0,
                   allresults, files, files0, dirExists, fitimages, loads, sppOut, sub>>

\* A fit routine whose failure is caught: the frame is skipped and the loop
\* goes on.
Fit_swallows_error ==
    /\ pc = "fit"
    /\ trace' = Append(trace, Event("fit"))
    /\ fitimages' = Append(fitimages, imagetofit)
    /\ \E ok \in BOOLEAN, r \in FitResults :
         IF ok
         THEN /\ result' = <<r>>
              /\ allresults' = Append(allresults, r)
              /\ pc' = IF output_directory THEN "save" ELSE "update"
              /\ i' = i
              /\ UNCHANGED <<err, errAt>>
         ELSE /\ pc' = "iter" /\ err' = "FitError" /\ errAt' = "fit"
              /\ i' = i + 1
              /\ UNCHANGED <<result, allresults>>
    /\ UNCHANGED <<argvars, run, restart, series, frame, bg, df, imagetofit,
                   model, model0, files, files0, dirExists, loads, sppOut, sub>>

\* Lines 160-161: the fit routine returns a result, which is appended, or
\* raises.
Fit ==
    /\ pc = "fit"
    /\ trace' = Append(trace, Event("fit"))
    /\ fitimages' = Append(fitimages, imagetofit)
    /\ \E ok \in BOOLEAN, r \in FitResults :
         IF ok
         THEN /\ result' = <<r>>
              /\ allresults' = Append(allresults, r)
              /\ pc' = IF output_directory THEN "save" ELSE "update"
              /\ UNCHANGED <<err, errAt>>
         ELSE /\ pc' = "raised" /\ err' = "FitError" /\ errAt' = "fit"
              /\ UNCHANGED <<result, allresults>>
    /\ UNCHANGED <<argvars, run, restart, i, series, frame, bg, df, imagetofit,
                   model, model0, files, files0, dirExists, loads, sppOut, sub>>

\* Lines 162-163: the result is written to fit_result_<i>.yaml.
Save ==
    /\ pc = "save"
    /\ trace' = Append(trace, Event("save"))
    /\ \E ok \in BOOLEAN :
         IF ok
         THEN /\ files' = [files EXCEPT ![i] = result]
              /\ pc' = "update"
              /\ UNCHANGED <<err, errAt>>
         ELSE /\ pc' = "raised" /\ err' = "IOError" /\ errAt' = "save"
              /\ UNCHANGED files
    /\ UNCHANGED <<argvars, run, restart, i, series, frame, bg, df, imagetofit,
                   result, model, model0, allresults, files0, dirExists, fitimages,
                   loads, sppOut, sub>>

\* Line 165: the update policy advances the model; the loop goes on.
Update ==
    /\ pc = "update"
    /\ trace' = Append(trace, Event("update"))
    /\ LET u == update_all(model, result[1])
       IN  /\ model' = u.model
           /\ IF u.err # "none"
              THEN pc' = "raised" /\ err' = u.err /\ errAt' = "update" /\ UNCHANGED i
              ELSE pc' = "iter" /\ i' = i + 1 /\ UNCHANGED <<err, errAt>>
    /\ UNCHANGED <<argvars, run, restart, series, frame, bg, df, imagetofit,
                   result, model0, allresults, files, files0, dirExists, fitimages,
                   loads, sppOut, sub>>

\* ------------------------------------------------- series_preprocess_data
\* Lines 252-255, called before a series fit is started.
series_preprocess_data(bgLoadOk, frameLoadOk) ==
    LET b == IF isinstance_basestring(bgArg)
             THEN IF bgLoadOk THEN load(PathOf(bgArg), data_spacing, data_optics)
                  ELSE Raise("IOError")
             ELSE bgArg
        g == getitem(_load_series_data(data), nframes, 0, frameLoadOk)
    IN  [value |-> IF IsRaise(b) THEN b
                   ELSE IF IsRaise(g.value) THEN g.value
                   ELSE div_normalize(g.value, b, dfArg, model),
         loaded |-> IF IsRaise(b) THEN {} ELSE g.loaded]

SeriesPreprocessData ==
    /\ pc = "idle"
    /\ sppOut = <<>>
    /\ \E bgLoadOk \in BOOLEAN, frameLoadOk \in BOOLEAN :
         LET o == series_preprocess_data(bgLoadOk, frameLoadOk)
         IN  /\ sppOut' = o.value
             /\ loads' = [k \in Frames |-> IF k \in o.loaded THEN loads[k] + 1 ELSE loads[k]]
    /\ UNCHANGED <<argvars, run, restart, pc, i, series, frame, bg, df, imagetofit,
                   result, model, model0, allresults, files, files0, dirExists, err,
                   errAt, trace, fitimages, sub>>

Next ==
    \/ FitSeriesCall
    \/ NextFrame
    \/ Body
    \/ Fit
    \/ Save
    \/ Update
    \/ SeriesPreprocessData

Spec == Init /\ [][Next]_vars

\* ------------------------------------------- scatterer_centered_subimage
\* The policy is applied to one frame: shape is the frame's shape, size the
\* requested window, center the first two components of the model's
\* scatterer guess (physical units), spacing the frame's pixel spacing.
\* Sizes are even and centres whole multiples of the spacing, so that
\* size/2 and center/spacing are whole numbers.
Axes == 1..2
Shapes == {MaxShape - 2, MaxShape}
Sizes == {2, 4}
Spacings == {1, 2}
PixelCentres == 0..MaxShape

SubInputs ==
    {[pc |-> "call", shape |-> sh, size |-> sz, spacing |-> sp,
      center |-> <<sp * p[1], sp * p[2]>>, recenter |-> rc,
      used |-> <<0, 0>>, out |-> "none"] :
        sh \in Shapes \X Shapes, sz \in Sizes \X Sizes, sp \in Spacings,
        p \in PixelCentres \X PixelCentres, rc \in BOOLEAN}

\* subimage(arr, center, size): the window of the given size about center;
\* IndexError when the window reaches outside the array.
SubimageRaises(shape, center, size) ==
    \E a \in Axes : \/ center[a] - size[a] \div 2 < 0
                    \/ center[a] + size[a] \div 2 > shape[a]

\* np.clip(x, -np.inf, 0)
ClipToNonPositive(x) == IF x < 0 THEN x ELSE 0

\* Line 51
PixelCenter(center, spacing) == [a \in Axes |-> center[a] \div spacing]

\* Lines 57-59
NewCenter(center, size, shape) ==
    LET new_center == [a \in Axes |-> center[a]]
        c1 == [a \in Axes |->
                 new_center[a] - ClipToNonPositive(new_center[a] - size[a] \div 2)]
        c2 == [a \in Axes |->
                 c1[a] + ClipToNonPositive(shape[a] - (c1[a] + size[a] \div 2))]
    IN  c2

\* Lines 51-56: the first attempt, about the pixel centre.
SubTry ==
    /\ sub.pc = "call"
    /\ LET center == PixelCenter(sub.center, sub.spacing)
       IN  IF ~SubimageRaises(sub.shape, center, sub.size)
           THEN sub' = [sub EXCEPT !.pc = "done", !.out = "window", !.used = center]
           ELSE IF ~sub.recenter
           THEN sub' = [sub EXCEPT !.pc = "done", !.out = "IndexError"]
           ELSE sub' = [sub EXCEPT !.pc = "except"]
    /\ UNCHANGED mainvars

\* Lines 57-60: the handler of the IndexError.
SubExcept ==
    /\ sub.pc = "except"
    /\ LET new_center == NewCenter(sub.center, sub.size, sub.shape)
       IN  IF SubimageRaises(sub.shape, new_center, sub.size)
           THEN sub' = [sub EXCEPT !.pc = "done", !.out = "IndexError"]
           ELSE sub' = [sub EXCEPT !.pc = "done", !.out = "window",
                                   !.used = new_center]
    /\ UNCHANGED mainvars

InitSub ==
    /\ MainInit
    /\ data = "list" /\ nframes = 0 /\ bgArg = None /\ dfArg = None
    /\ output_directory = FALSE
    /\ sub \in SubInputs

NextSub == SubTry \/ SubExcept

SpecSub == InitSub /\ [][NextSub]_vars

\* ============================================================= properties
Ended == pc \in {"returned", "raised"}

\* The call ended in a failure of a collaborator: the loader, the fit
\* routine, the save routine, or a result that lacks a parameter.
ExternalFailure == err \in {"FitError", "IOError"} \/ errAt = "update"

GuessOf(r) == [p \in Names |-> r[p]]

\* The image of frame k of either kind of source, as the caller configured it.
FrameImage(variant, k) ==
    IF variant = "SeriesH5Data" THEN Image(str(k), data_spacing, data_optics)
    ELSE load(FileName(k), data_spacing, data_optics)

FitEvents == SelectSeq(trace, LAMBDA e : e.op = "fit")

Rank(op) ==
    CASE op = "getitem" -> 1
      [] op = "loadresult" -> 2
      [] op = "preprocess" -> 2
      [] op = "fit" -> 3
      [] op = "save" -> 4
      [] op = "update" -> 5

\* C1: a series of N frames, restart disabled, the fit routine returning a
\* value for every frame: the call returns a list of N results, entry i the
\* result of fitting frame i, and the model's guesses end as the values
\* fitted for frame N-1.
C1_Claim ==
    (run >= 1 /\ Ended /\ ~restart /\ nframes >= 1 /\ bgArg = None /\ dfArg = None
        /\ ~ExternalFailure)
    => /\ pc = "returned"
       /\ Len(allresults) = nframes
       /\ Len(fitimages) = nframes
       /\ \A k \in 1..nframes :
            fitimages[k] = div_normalize(FrameImage(series, k - 1), None, None, model0)
       /\ model = GuessOf(allresults[nframes])

\* C2: a call with restart set, made after an earlier call wrote the result
\* files of the first frames and was interrupted before the last frame,
\* returns with the final model state of an uninterrupted run (the values
\* fitted for the last frame) and does not invoke the fit routine for a
\* frame whose file exists.
C2_Claim ==
    (restart /\ output_directory /\ Ended /\ nframes >= 2 /\ bgArg # BgPath
        /\ files0[0] # <<>> /\ files0[nframes - 1] = <<>>
        /\ (\A k \in Frames : files0[k] # <<>> => Names \subseteq DOMAIN files0[k][1])
        /\ ~ExternalFailure)
    => /\ pc = "returned"
       /\ \A a \in 1..Len(trace) :
            trace[a].op = "fit" => files0[trace[a].idx] = <<>>
       /\ Len(allresults) >= 1
       /\ model = GuessOf(allresults[Len(allresults)])

\* C3: the returned list holds one result per frame fit in this call, in
\* frame order, and none for a frame loaded from its result file; a loaded
\* result is still handed to the update policy.
C3_Claim ==
    /\ [](pc = "returned" =>
            /\ Len(allresults) = Len(FitEvents)
            /\ \A a, b \in 1..Len(FitEvents) :
                 a < b => FitEvents[a].idx < FitEvents[b].idx)
    /\ [][(pc = "body" /\ restart /\ files[i] # <<>>)
            => (pc' = "update" /\ result' = files[i] /\ allresults' = allresults)]_vars

\* C4: an error at frame i ends the call at once: no later frame is
\* touched, no step is repeated, and the result files written for the
\* frames before i stay as they were written.
C4_ErrorsAreFatal ==
    /\ [](err # "none" => pc = "raised")
    /\ [](pc = "raised" =>
            /\ \A a \in 1..Len(trace) : trace[a].idx <= i
            /\ \A a, b \in 1..Len(trace) :
                 (a # b /\ trace[a].idx = trace[b].idx) => trace[a].op # trace[b].op
            /\ output_directory =>
                 \A k \in 0..(i - 1) : files[k] = <<allresults[k + 1]>>)
    /\ [][pc' = "raised" => files' = files]_vars
    /\ [][(pc = "raised" /\ run' = run)
            => UNCHANGED <<pc, i, err, files, trace, allresults, fitimages, model>>]_vars

\* The fit of frame 1 failed after the result of frame 0 was written.
C4_Witness ==
    /\ pc = "raised" /\ errAt = "fit" /\ i = 1
    /\ output_directory /\ files[0] = <<allresults[1]>>

\* C5: series_preprocess_data returns the image fit_series hands to the fit
\* routine for frame 0 under the same arguments, also when bg or df is a
\* path; when it returns an image, fit_series reaches that first fit unless
\* a loader fails.
C5_Claim ==
    (sppOut # <<>> /\ sppOut # Raise("IOError") /\ run = 1 /\ ~restart)
    => /\ Len(fitimages) >= 1 => sppOut = fitimages[1]
       /\ (~IsRaise(sppOut) /\ pc = "raised" /\ Len(fitimages) = 0)
            => err = "IOError"

\* C6: for both accessors, item k is the image of frame k with the
\* configured spacing and optics, so the loop body sees frame i.
C6_Claim == pc = "body" => frame = FrameImage(series, i)

\* C7: with recenter_at_edge, a window about the pixel centre that leaves
\* the frame is replaced by the window about that pixel centre moved inward,
\* on each axis, by the overshoot on that axis; without it the IndexError
\* propagates.
ShiftedPixelCenter(center, spacing, size, shape) ==
    [a \in Axes |->
        LET c == center[a] \div spacing
            h == size[a] \div 2
            low == IF c - h < 0 THEN h - c ELSE 0
            high == IF c + h > shape[a] THEN c + h - shape[a] ELSE 0
        IN  c + low - high]

C7_Claim ==
    (sub.pc = "done"
        /\ SubimageRaises(sub.shape, PixelCenter(sub.center, sub.spacing), sub.size))
    => IF sub.recenter
       THEN /\ sub.out = "window"
            /\ ~SubimageRaises(sub.shape, sub.used, sub.size)
            /\ sub.used = ShiftedPixelCenter(sub.center, sub.spacing, sub.size, sub.shape)
       ELSE sub.out = "IndexError"

\* C8: a bg or df given as a path is loaded once, before the first frame,
\* and every frame is preprocessed with that image; an object or None is
\* passed through; resolving fails only when the loader fails.
C8_Claim ==
    /\ (pc = "raised" /\ errAt = "resolve") => err = "IOError"
    /\ pc \in {"iter", "body", "fit", "save", "update", "returned"} =>
         /\ bg = (IF isinstance_basestring(bgArg)
                  THEN load(PathOf(bgArg), data_spacing, data_optics) ELSE bgArg)
         /\ df = (IF isinstance_basestring(dfArg)
                  THEN load(PathOf(dfArg), data_spacing, data_optics) ELSE dfArg)

\* C9: the steps of a call run through the frames in increasing index
\* order, each step once per frame and the update last; every step of
\* frame 0 sees the guesses the call began with, every step of frame i > 0
\* the values of the result of frame i-1.
C9_GuessChain ==
    /\ \A a \in 1..Len(trace) :
         trace[a].guess = (IF trace[a].idx = 0 THEN model0
                           ELSE GuessOf(allresults[trace[a].idx]))
    /\ Len(trace) >= 1 => trace[1].idx = 0
    /\ \A a \in 1..(Len(trace) - 1) :
         /\ trace[a + 1].idx = (IF trace[a].op = "update" THEN trace[a].idx + 1
                                ELSE trace[a].idx)
         /\ trace[a].op # "update" => Rank(trace[a].op) < Rank(trace[a + 1].op)
    /\ (pc = "iter" /\ i > 0) => model = GuessOf(allresults[i])

\* Frame 1 is fit with guesses that differ from those the call began with.
C9_Witness ==
    \E a \in 1..Len(trace) :
        trace[a].op = "fit" /\ trace[a].idx = 1 /\ trace[a].guess # model0

\* C10: on either accessor the loop visits 0 .. N-1 and then returns; the
\* end of the data is never raised to the caller.
C10_Claim ==
    nframes >= 1 =>
        /\ (pc = "raised" /\ errAt = "getitem") => err = "IOError"
        /\ pc = "returned" => i = nframes

====
